---- MODULE Spec2Model ----
(***************************************************************************)
(* Model of egs/wsj/s5/steps/nnet3/train_raw_rnn.py: the iteration        *)
(* scheduler train() and its top level main().  One run of the script is  *)
(* a walk of pc from "main" to "exit"; a later run of the script over the *)
(* same experiment directory (resumption with --stage) is started by      *)
(* Resume.  External collaborators (libs.nnet3.train.*, libs.common) are   *)
(* modelled by what the design document says of their interfaces.         *)
(***************************************************************************)
EXTENDS Integers, Sequences, FiniteSets

VARIABLES
    args,                   \* the argparse Namespace (options of this run)
    variables,              \* configs/vars: model contexts, include_log_softmax
    num_archives,           \* archives in the egs dir (verify_egs_dir)
    egs,                    \* geometry of the examples in the egs dir, or NoEgs
    mail_delivery,          \* "ok" | "fails": whether the mail command delivers
    pc,                     \* position of the script
    iter,                   \* loop index of "for iter in range(num_iters)"
    num_archives_processed, \* the counter of line 355 / 453
    background_process_handler, \* "unbound" | "active" | "done" | "stopped"
    outstanding,            \* side-jobs submitted to the handler, not yet finished
    aborted,                \* side-jobs dropped by stop()
    disk,                   \* dir/<i>.raw : [0..MaxNumIters -> content or Absent]
    final_raw,              \* dir/final.raw content or Absent
    err,                    \* the exception raised inside the try block, or "none"
    status,                 \* how the process ended: "running" | "success" | exception
    run,                    \* number of this run of the script over the directory
    progress,               \* first stage no run has completed yet
    trainLog,               \* TrainOneIteration calls of this run, in order
    shrinkLog,              \* iterations whose saturation was measured in this run
    retireLog,              \* remove_model requests of this run (indices)
    retireDeleted,          \* checkpoints deleted by remove_model in this run
    cleanDeleted,           \* checkpoints deleted by clean_nnet_dir in this run
    mailLog,                \* mails sent in this run, in order
    phaseLog,               \* post-loop phases invoked in this run, in order
    accuracy_report         \* dir/accuracy.report written in this run

vars == <<args, variables, num_archives, egs, mail_delivery, pc, iter, num_archives_processed,
          background_process_handler, outstanding, aborted, disk, final_raw,
          err, status, run, progress, trainLog, shrinkLog, retireLog,
          retireDeleted, cleanDeleted, mailLog, phaseLog, accuracy_report>>

(***************************************************************************)
(* Bounds of the model.                                                    *)
(***************************************************************************)
MaxArchives == 3
MaxRuns == 2
MaxPlanEpochs == 2              \* epochs of the scheduling specification
MaxPlanArchives == 10           \* archives of the scheduling specification
MaxPlanJobs == 3                \* parallel jobs of the scheduling specification

(***************************************************************************)
(* Program constants.                                                      *)
(***************************************************************************)
DefaultChunkWidth == 20
DefaultChunkLeftContext == 40
DefaultDerivTruncateMargin == 8
GenerateEgsStage == 0 - 3       \* the stage that generates the examples (line 279)
DefaultShrinkValue == 99        \* 0.99, in hundredths
NoShrink == 100                 \* 1.0, in hundredths
Absent == 0 - 1                 \* no such file
FirstStage == 0 - 1             \* the last pre-loop stage (prepare_initial_network)

NumEpochsChoices == {2}
NumJobsChoices == {1, 2}
PreserveIntervalChoices == {0, 2}
MaxModelsCombineChoices == {4}
ReportingIntervalChoices == {<<1, 2>>}
ContentModulus == 97

Min(a, b) == IF a <= b THEN a ELSE b
Max(a, b) == IF a >= b THEN a ELSE b

(***************************************************************************)
(* Lines 354-357: the iteration count (integer division of Python 2).      *)
(***************************************************************************)
NumArchivesToProcess(a, n) == a.num_epochs * n

NumItersOf(a, n) ==
    (NumArchivesToProcess(a, n) * 2) \div (a.num_jobs_initial + a.num_jobs_final)

num_iters == NumItersOf(args, num_archives)

\* the largest num_iters of any configuration: 2 epochs, 1+1 jobs
MaxNumIters == 2 * MaxArchives

(***************************************************************************)
(* Lines 387-389: int(0.5 + initial + (final - initial) * iter/num_iters). *)
(* The argument is positive, so int() is the floor.                        *)
(***************************************************************************)
\* the ramp without the 0.5 of line 387: the job count truncated
CurrentNumJobs_Truncated(i) ==
    (args.num_jobs_initial * num_iters
       + (args.num_jobs_final - args.num_jobs_initial) * i)
    \div num_iters

\* the ramp run from the final job count down to the initial one
CurrentNumJobs_Swapped(i) ==
    (num_iters + 2 * args.num_jobs_final * num_iters
       + 2 * (args.num_jobs_initial - args.num_jobs_final) * i)
    \div (2 * num_iters)

CurrentNumJobs(i) ==
    (num_iters + 2 * args.num_jobs_initial * num_iters
       + 2 * (args.num_jobs_final - args.num_jobs_initial) * i)
    \div (2 * num_iters)

(***************************************************************************)
(* Lines 373-378: the derivative-time window.                              *)
(***************************************************************************)
\* the window opened by the chunk context instead of the model context
MinDerivTime_ChunkContext ==
    IF args.deriv_truncate_margin = {} THEN {}
    ELSE {0 - m - args.chunk_left_context : m \in args.deriv_truncate_margin}

MinDerivTime ==
    IF args.deriv_truncate_margin = {} THEN {}
    ELSE {0 - m - variables.model_left_context : m \in args.deriv_truncate_margin}

MaxDerivTime ==
    IF args.deriv_truncate_margin = {} THEN {}
    ELSE {args.chunk_width - 1 + m + variables.model_right_context :
            m \in args.deriv_truncate_margin}

(***************************************************************************)
(* verify_iterations (line 359): the trailing window of checkpoints that   *)
(* is averaged into final.raw.                                             *)
(***************************************************************************)
ModelsToCombineOf(n, maxCombine) ==
    {i \in 1..n : i > n - maxCombine}

models_to_combine == ModelsToCombineOf(num_iters, args.max_models_combine)


(***************************************************************************)
(* External collaborators, by their interfaces.                            *)
(***************************************************************************)
InitialContent == 1

\* do_shrinkage (lines 397-400): the saturation diagnostic over a checkpoint
DoShrinkage(c) == c % 2 = 1

\* train_one_iteration: a deterministic function of its inputs
TrainOneIterationResult(c, p) ==
    (3 * c + 5 * p.num_jobs + 7 * p.num_archives_processed + 11 * p.iter
       + p.shrinkage_value + 1) % ContentModulus

RECURSIVE CombineModelsResult(_, _)
CombineModelsResult(d, S) ==
    IF S = {} THEN 0
    ELSE LET i == CHOOSE x \in S : \A y \in S : x >= y
         IN  ((i + 1) * d[i] + 13 * CombineModelsResult(d, S \ {i}))
                % ContentModulus

\* remove_model / CheckpointStore.retire: what is never deleted
Retained(index, combine, interval) ==
    \/ index \in combine
    \/ interval > 0 /\ index % interval = 0

RemoveModel(d, index, combine, interval) ==
    IF index < 0 \/ index \notin DOMAIN d \/ Retained(index, combine, interval)
    THEN d
    ELSE [d EXCEPT ![index] = Absent]

\* clean_nnet_dir(num_iters, preserve_model_interval): the retention set it
\* is given is the preservation interval alone
RECURSIVE CleanNnetDir(_, _, _)
CleanNnetDir(d, n, interval) ==
    IF n = 0 THEN d
    ELSE CleanNnetDir(RemoveModel(d, n - 1, {}, interval), n - 1, interval)

(***************************************************************************)
(* Lines 394-402: the shrinkage value of an iteration.                     *)
(***************************************************************************)
ShrinkageValue(c) ==
    IF args.shrink_value # NoShrink
    THEN (IF DoShrinkage(c) THEN args.shrink_value ELSE NoShrink)
    ELSE NoShrink

(***************************************************************************)
(* Lines 404-432: the parameters of one train_one_iteration call.          *)
(***************************************************************************)
TrainParams(i, processed, c) ==
    [iter |-> i,
     num_jobs |-> CurrentNumJobs(i),
     num_archives_processed |-> processed,
     num_archives_to_process |-> NumArchivesToProcess(args, num_archives),
     shrinkage_value |-> ShrinkageValue(c),
     min_deriv_time |-> MinDerivTime,
     max_deriv_time |-> MaxDerivTime]

(***************************************************************************)
(* Lines 442-444: the gate of the periodic report.  reporting_interval is  *)
(* the fraction r[1]/r[2]; iter % (num_iters * r) == 0 in exact arithmetic.*)
(***************************************************************************)
ReportingGate(i) ==
    /\ args.email
    /\ (i * args.reporting_interval[2])
          % (num_iters * args.reporting_interval[1]) = 0

\* send_mail (lines 451, 493, 514) returns whether or not the mail is
\* delivered; the mail is logged with what became of it
Mail(kind, i) ==
    [kind |-> kind, iter |-> i, delivered |-> mail_delivery = "ok"]

(***************************************************************************)
(* Lines 262-263, 278-328: the examples.  generate_egs_using_targets is    *)
(* asked for the contexts and chunk width of this run; verify_egs_dir      *)
(* reads the geometry of the directory back and fails on a mismatch.       *)
(***************************************************************************)
NoEgs == [left_context |-> Absent, right_context |-> Absent,
          frames_per_eg |-> Absent]

left_context == args.chunk_left_context + variables.model_left_context
right_context == args.chunk_right_context + variables.model_right_context

GeneratedEgs ==
    [left_context |-> left_context,
     right_context |-> right_context,
     frames_per_eg |-> args.chunk_width]

\* line 279
GeneratesEgs == args.stage <= GenerateEgsStage /\ args.egs_dir = {}

\* the examples of egs_dir when verify_egs_dir (line 324) reads them
EgsVerified == IF GeneratesEgs THEN GeneratedEgs ELSE egs

VerifyEgsDirFails(e) ==
    \/ e = NoEgs
    \/ e.left_context # left_context
    \/ e.right_context # right_context

(***************************************************************************)
(* Lines 164-173: the checks of process_args; lines 249-260 and 324-332:   *)
(* the checks of train() before the loop, in the order they are made.      *)
(***************************************************************************)
ArgsError ==
    IF args.chunk_width < 1 THEN "chunk_width"
    ELSE IF args.chunk_left_context < 0 THEN "chunk_left_context"
    ELSE IF args.chunk_right_context < 0 THEN "chunk_right_context"
    ELSE "none"

\* the checks of train() without the one of lines 330-332
ConfigError_NoJobsCheck ==
    IF variables.missing # {} THEN "KeyError"
    ELSE IF VerifyEgsDirFails(EgsVerified) THEN "verify_egs_dir"
    ELSE IF args.chunk_width # EgsVerified.frames_per_eg THEN "AssertionError"
    ELSE "none"

ConfigError ==
    IF variables.missing # {} THEN "KeyError"
    ELSE IF VerifyEgsDirFails(EgsVerified) THEN "verify_egs_dir"
    ELSE IF args.chunk_width # EgsVerified.frames_per_eg THEN "AssertionError"
    ELSE IF args.num_jobs_final > num_archives THEN "num_jobs_final"
    ELSE "none"

(***************************************************************************)
(* The options of a run.                                                   *)
(***************************************************************************)
ExitStageChoices == {{}, {1}, {3}}

ArgsChoices ==
    [stage : {FirstStage},
     exit_stage : ExitStageChoices,
     num_epochs : NumEpochsChoices,
     num_jobs_initial : NumJobsChoices,
     num_jobs_final : NumJobsChoices,
     cleanup : BOOLEAN,
     email : BOOLEAN,
     preserve_model_interval : PreserveIntervalChoices,
     max_models_combine : MaxModelsCombineChoices,
     shrink_value : {DefaultShrinkValue, NoShrink},
     reporting_interval : ReportingIntervalChoices,
     chunk_width : {DefaultChunkWidth},
     chunk_left_context : {DefaultChunkLeftContext},
     chunk_right_context : {0},
     deriv_truncate_margin : {{DefaultDerivTruncateMargin}},
     num_bptt_steps : {{}},
     egs_dir : {{}},
     remove_egs : {FALSE}]

VariablesChoices ==
    [model_left_context : {10},
     model_right_context : {10},
     include_log_softmax : BOOLEAN,
     missing : {{}}]

EmptyDisk == [i \in 0..MaxNumIters |-> Absent]

Init ==
    /\ args \in ArgsChoices
    /\ variables \in VariablesChoices
    /\ num_archives \in 2..MaxArchives
    /\ args.num_jobs_final <= num_archives
    /\ egs = GeneratedEgs
    /\ mail_delivery = "ok"
    /\ pc = "main"
    /\ iter = 0
    /\ num_archives_processed = 0
    /\ background_process_handler = "unbound"
    /\ outstanding = 0
    /\ aborted = 0
    /\ disk = EmptyDisk
    /\ final_raw = Absent
    /\ err = "none"
    /\ status = "running"
    /\ run = 1
    /\ progress = FirstStage
    /\ trainLog = <<>>
    /\ shrinkLog = <<>>
    /\ retireLog = <<>>
    /\ retireDeleted = {}
    /\ cleanDeleted = {}
    /\ mailLog = <<>>
    /\ phaseLog = <<>>
    /\ accuracy_report = FALSE

config == <<args, variables, num_archives, run, egs, mail_delivery>>
logs == <<trainLog, shrinkLog, retireLog, retireDeleted, cleanDeleted,
          mailLog, phaseLog, accuracy_report>>
handler == <<background_process_handler, outstanding, aborted>>
loopvars == <<iter, num_archives_processed>>
files == <<disk, final_raw>>

\* the exception swallowed where it is raised: the step is tried again
Raise_AndRetry(e) ==
    /\ pc' = pc
    /\ err' = e

\* an exception leaves the try block of main() (line 510)
Raise(e) ==
    /\ pc' = "except"
    /\ err' = e

(***************************************************************************)
(* main(), line 504: get_args() ends with process_args (line 157), outside *)
(* the try block.  Lines 175-184 translate --trainer.rnn.num-bptt-steps.   *)
(***************************************************************************)
\* process_args without lines 175-184: --trainer.rnn.num-bptt-steps ignored
ProcessArgs_NoTranslation ==
    /\ pc = "get_args"
    /\ ArgsError = "none"
    /\ args' = args
    /\ pc' = "main"
    /\ UNCHANGED <<variables, num_archives, run, egs, mail_delivery, logs,
                   loopvars, files, handler, err, status, progress>>

ProcessArgs ==
    /\ pc = "get_args"
    /\ ArgsError = "none"
    /\ args' = IF args.num_bptt_steps = {} THEN args
               ELSE [args EXCEPT !.deriv_truncate_margin =
                       {b - args.chunk_width - 2 : b \in args.num_bptt_steps}]
    /\ pc' = "main"
    /\ UNCHANGED <<variables, num_archives, run, egs, mail_delivery, logs,
                   loopvars, files, handler, err, status, progress>>

\* a check of lines 164-173 raises: the exception leaves main() at line 504
ProcessArgsFails ==
    /\ pc = "get_args"
    /\ ArgsError # "none"
    /\ status' = ArgsError
    /\ pc' = "exit"
    /\ UNCHANGED <<config, logs, loopvars, files, handler, err, progress>>

(***************************************************************************)
(* main(), lines 506-507: the handler is constructed inside the try block. *)
(***************************************************************************)
ConstructHandler ==
    /\ pc = "main"
    /\ background_process_handler' = "active"
    /\ pc' = "train"
    /\ UNCHANGED <<config, logs, loopvars, files, outstanding, aborted, err,
                   status, progress>>

ConstructHandlerFails ==
    /\ pc = "main"
    /\ Raise("BackgroundProcessHandler")
    /\ UNCHANGED <<config, logs, loopvars, files, handler, status, progress>>

(***************************************************************************)
(* train(), lines 236-381: everything before the loop.  Stage -1 prepares  *)
(* the initial network 0.raw.                                              *)
(***************************************************************************)
PrepareTraining ==
    /\ pc = "train"
    /\ ConfigError = "none"
    /\ egs' = EgsVerified
    /\ disk' = IF args.stage <= FirstStage
               THEN [disk EXCEPT ![0] = InitialContent]
               ELSE disk
    /\ progress' = Max(progress, 0)
    /\ num_archives_processed' = 0
    /\ iter' = 0
    /\ pc' = "loop"
    /\ UNCHANGED <<args, variables, num_archives, run, mail_delivery, logs,
                   handler, final_raw, err, status>>

\* one of the checks of lines 249-260 and 324-332 raises; the examples may
\* have been generated before it (line 279)
PrepareTrainingFails ==
    /\ pc = "train"
    /\ ConfigError # "none"
    /\ egs' = IF variables.missing = {} THEN EgsVerified ELSE egs
    /\ Raise(ConfigError)
    /\ UNCHANGED <<args, variables, num_archives, run, mail_delivery, logs,
                   handler, loopvars, files, status, progress>>


(***************************************************************************)
(* The guards of train().                                                  *)
(***************************************************************************)
\* the exit test made after the iteration instead of before it
ExitsAt_AfterIteration(i) == (i - 1) \in args.exit_stage

\* the exit test made inside the block of line 391: only an iteration that
\* --stage lets run can end the run
ExitsAt_OnlyExecuted(i) == i \in args.exit_stage /\ args.stage <= i

\* line 384: (args.exit_stage is not None) and (iter == args.exit_stage)
ExitsAt(i) == i \in args.exit_stage

\* the stage test off by one: the stage before --stage is run again
StageRuns_OffByOne(s) == args.stage <= s + 1

\* lines 391, 455, 465: args.stage <= <stage>
StageRuns(s) == args.stage <= s

\* the retire index taken ahead of the iteration: the new checkpoint is retired
RetireIndex_Ahead(i) == i + 1

\* the retire index off by one: the checkpoint before last is retired
RetireIndex_OffByOne(i) == i - 1

\* line 438: the index handed to remove_model after iteration i
RetireIndex(i) == i - 2

\* remove_model called without the models to combine
RetireRequest_NoCombineSet(d, i) ==
    RemoveModel(d, RetireIndex(i), {}, args.preserve_model_interval)

\* lines 437-440: remove_model(dir, iter-2, num_iters, models_to_combine,
\* preserve_model_interval)
RetireRequest(d, i) ==
    RemoveModel(d, RetireIndex(i), models_to_combine,
                args.preserve_model_interval)

\* the counter advanced by one archive per iteration, whatever the job count
Advance_ByOne(processed, i) == processed + 1

\* line 453
Advance(processed, i) == processed + CurrentNumJobs(i)

(***************************************************************************)
(* Lines 383-386: the loop reaches --exit-stage and train() returns.       *)
(***************************************************************************)
ExitEarly ==
    /\ pc = "loop"
    /\ iter < num_iters
    /\ ExitsAt(iter)
    /\ pc' = "ensure"
    /\ UNCHANGED <<config, logs, loopvars, files, handler, err, status,
                   progress>>

(***************************************************************************)
(* Lines 387-391, 453: an iteration before --stage is skipped.             *)
(***************************************************************************)
\* a skipped iteration that leaves the counter of line 453 alone
SkipIteration_NoAdvance ==
    /\ pc = "loop"
    /\ iter < num_iters
    /\ ~ExitsAt(iter)
    /\ ~StageRuns(iter)
    /\ iter' = iter + 1
    /\ UNCHANGED <<config, logs, pc, files, handler, err, status, progress,
                   num_archives_processed>>

SkipIteration ==
    /\ pc = "loop"
    /\ iter < num_iters
    /\ ~ExitsAt(iter)
    /\ ~StageRuns(iter)
    /\ num_archives_processed' = Advance(num_archives_processed, iter)
    /\ iter' = iter + 1
    /\ UNCHANGED <<config, logs, pc, files, handler, err, status, progress>>

(***************************************************************************)
(* Lines 391-453: one executed iteration whose train_one_iteration call    *)
(* succeeds: shrinkage, training, retiring iter-2, periodic report.        *)
(***************************************************************************)
TrainCall(ok) ==
    [params |-> TrainParams(iter, num_archives_processed, disk[iter]),
     input |-> disk[iter],
     ok |-> ok]

\* the saturation measured whatever --shrink-value is
MeasureShrinkage_Always == Append(shrinkLog, iter)

MeasureShrinkage ==
    IF args.shrink_value # NoShrink THEN Append(shrinkLog, iter) ELSE shrinkLog

RunIteration ==
    /\ pc = "loop"
    /\ iter < num_iters
    /\ ~ExitsAt(iter)
    /\ StageRuns(iter)
    /\ disk[iter] # Absent
    /\ LET call == TrainCall(TRUE)
           trained == [disk EXCEPT ![iter + 1] =
                          TrainOneIterationResult(disk[iter], call.params)]
           retired == IF args.cleanup
                      THEN RetireRequest(trained, iter)
                      ELSE trained
       IN  /\ shrinkLog' = MeasureShrinkage
           /\ trainLog' = Append(trainLog, call)
           /\ disk' = retired
           /\ retireLog' = IF args.cleanup
                           THEN Append(retireLog, RetireIndex(iter))
                           ELSE retireLog
           /\ retireDeleted' = retireDeleted \cup
                 {i \in DOMAIN disk : trained[i] # Absent /\ retired[i] = Absent}
    /\ mailLog' = IF ReportingGate(iter)
                  THEN Append(mailLog, Mail("update", iter))
                  ELSE mailLog
    /\ outstanding' = outstanding + 1
    /\ num_archives_processed' = Advance(num_archives_processed, iter)
    /\ iter' = iter + 1
    /\ progress' = Max(progress, iter + 1)
    /\ UNCHANGED <<config, pc, final_raw, background_process_handler, aborted,
                   err, status, cleanDeleted, phaseLog, accuracy_report>>

(***************************************************************************)
(* Lines 404-432: train_one_iteration raises.                              *)
(***************************************************************************)
TrainOneIterationFails ==
    /\ pc = "loop"
    /\ iter < num_iters
    /\ ~ExitsAt(iter)
    /\ StageRuns(iter)
    /\ shrinkLog' = MeasureShrinkage
    /\ trainLog' = Append(trainLog, TrainCall(FALSE))
    /\ outstanding' = outstanding + 1
    /\ Raise("train_one_iteration")
    /\ UNCHANGED <<config, loopvars, files, background_process_handler,
                   aborted, status, progress, retireLog, retireDeleted,
                   cleanDeleted, mailLog, phaseLog, accuracy_report>>

EndLoop ==
    /\ pc = "loop"
    /\ iter = num_iters
    /\ pc' = "combine"
    /\ UNCHANGED <<config, logs, loopvars, files, handler, err, status,
                   progress>>

(***************************************************************************)
(* Lines 455-463: the final combination.                                   *)
(***************************************************************************)
Phase(name, missing) == [phase |-> name, missing |-> missing]

MissingModels == {i \in models_to_combine : disk[i] = Absent}

CombineModels ==
    /\ pc = "combine"
    /\ StageRuns(num_iters)
    /\ MissingModels = {}
    /\ final_raw' = CombineModelsResult(disk, models_to_combine)
    /\ phaseLog' = Append(phaseLog, Phase("combine_models", MissingModels))
    /\ outstanding' = outstanding + 1
    /\ progress' = Max(progress, num_iters + 1)
    /\ pc' = "prior"
    /\ UNCHANGED <<config, loopvars, disk, background_process_handler, aborted,
                   err, status, trainLog, shrinkLog, retireLog, retireDeleted,
                   cleanDeleted, mailLog, accuracy_report>>

CombineModelsFails ==
    /\ pc = "combine"
    /\ StageRuns(num_iters)
    /\ phaseLog' = Append(phaseLog, Phase("combine_models", MissingModels))
    /\ Raise("combine_models")
    /\ UNCHANGED <<config, loopvars, files, handler, status, progress,
                   trainLog, shrinkLog, retireLog, retireDeleted, cleanDeleted,
                   mailLog, accuracy_report>>

SkipCombine ==
    /\ pc = "combine"
    /\ ~StageRuns(num_iters)
    /\ pc' = "prior"
    /\ UNCHANGED <<config, logs, loopvars, files, handler, err, status,
                   progress>>

(***************************************************************************)
(* Lines 465-473: the average posterior, for adjusting the priors.         *)
(***************************************************************************)
\* the stage test of line 465 left out
RunsPrior_NoStageTest == variables.include_log_softmax

RunsPrior == variables.include_log_softmax /\ StageRuns(num_iters + 1)

ComputeAveragePosterior ==
    /\ pc = "prior"
    /\ RunsPrior
    /\ final_raw # Absent
    /\ phaseLog' = Append(phaseLog, Phase("compute_average_posterior", {}))
    /\ progress' = Max(progress, num_iters + 2)
    /\ pc' = "clean"
    /\ UNCHANGED <<config, loopvars, files, handler, err, status, trainLog,
                   shrinkLog, retireLog, retireDeleted, cleanDeleted, mailLog,
                   accuracy_report>>

ComputeAveragePosteriorFails ==
    /\ pc = "prior"
    /\ RunsPrior
    /\ phaseLog' = Append(phaseLog, Phase("compute_average_posterior", {}))
    /\ Raise("compute_average_posterior")
    /\ UNCHANGED <<config, loopvars, files, handler, status, progress,
                   trainLog, shrinkLog, retireLog, retireDeleted, cleanDeleted,
                   mailLog, accuracy_report>>

SkipPrior ==
    /\ pc = "prior"
    /\ ~RunsPrior
    /\ progress' = IF variables.include_log_softmax
                   THEN progress
                   ELSE Max(progress, num_iters + 2)
    /\ pc' = "clean"
    /\ UNCHANGED <<config, logs, loopvars, files, handler, err, status>>

(***************************************************************************)
(* Lines 475-488: cleaning the experiment directory.                       *)
(***************************************************************************)
RunsClean == args.cleanup

\* remove_egs taken from --remove-egs alone, whoever supplied the examples
RemoveEgs_IgnoresEgsDir == args.remove_egs

\* lines 478-482
RemoveEgs == args.remove_egs /\ args.egs_dir = {}

\* lines 484-488: the clean_nnet_dir call and its remove_egs argument
CleanPhase ==
    [phase |-> "clean_nnet_dir", missing |-> {}, remove_egs |-> RemoveEgs]

CleanDir ==
    /\ pc = "clean"
    /\ RunsClean
    /\ egs' = IF RemoveEgs THEN NoEgs ELSE egs
    /\ LET cleaned == CleanNnetDir(disk, num_iters,
                                   args.preserve_model_interval)
       IN  /\ disk' = cleaned
           /\ cleanDeleted' = cleanDeleted \cup
                 {i \in DOMAIN disk : disk[i] # Absent /\ cleaned[i] = Absent}
    /\ phaseLog' = Append(phaseLog, CleanPhase)
    /\ progress' = Max(progress, num_iters + 3)
    /\ pc' = "report"
    /\ UNCHANGED <<args, variables, num_archives, run, mail_delivery,
                   loopvars, final_raw, handler, err, status,
                   trainLog, shrinkLog, retireLog, retireDeleted, mailLog,
                   accuracy_report>>

CleanDirFails ==
    /\ pc = "clean"
    /\ RunsClean
    /\ phaseLog' = Append(phaseLog, CleanPhase)
    /\ Raise("clean_nnet_dir")
    /\ UNCHANGED <<config, loopvars, files, handler, status, progress,
                   trainLog, shrinkLog, retireLog, retireDeleted, cleanDeleted,
                   mailLog, accuracy_report>>

SkipClean ==
    /\ pc = "clean"
    /\ ~RunsClean
    /\ progress' = Max(progress, num_iters + 3)
    /\ pc' = "report"
    /\ UNCHANGED <<config, logs, loopvars, files, handler, err, status>>

(***************************************************************************)
(* Lines 490-500: the final report, the mail, the directory summary.       *)
(***************************************************************************)
\* the report generated and mailed but never written to accuracy.report
WriteReport_NotPersisted ==
    /\ phaseLog' = Append(phaseLog, Phase("generate_accuracy_report", {}))
    /\ mailLog' = IF args.email
                  THEN Append(mailLog, Mail("complete", num_iters))
                  ELSE mailLog
    /\ accuracy_report' = accuracy_report

WriteReport ==
    /\ phaseLog' = Append(phaseLog, Phase("generate_accuracy_report", {}))
    /\ mailLog' = IF args.email
                  THEN Append(mailLog, Mail("complete", num_iters))
                  ELSE mailLog
    /\ accuracy_report' = TRUE

FinalReport ==
    /\ pc = "report"
    /\ WriteReport
    /\ pc' = "ensure"
    /\ UNCHANGED <<config, loopvars, files, handler, err, status, progress,
                   trainLog, shrinkLog, retireLog, retireDeleted,
                   cleanDeleted>>

\* line 499: run_job("steps/info/nnet3_dir_info.pl ...") raises
DirInfoFails ==
    /\ pc = "report"
    /\ WriteReport
    /\ Raise("nnet3_dir_info")
    /\ UNCHANGED <<config, loopvars, files, handler, status, progress,
                   trainLog, shrinkLog, retireLog, retireDeleted,
                   cleanDeleted>>

(***************************************************************************)
(* main(), line 509: wait for every side-job, then the process ends.       *)
(***************************************************************************)
EnsureProcessesAreDone ==
    /\ pc = "ensure"
    /\ background_process_handler' = "done"
    /\ outstanding' = 0
    /\ status' = "success"
    /\ pc' = "exit"
    /\ UNCHANGED <<config, logs, loopvars, files, aborted, err, progress>>

(***************************************************************************)
(* main(), lines 510-517: the except block.                                *)
(***************************************************************************)
\* send_mail letting a delivery error out of the except block: the error
\* leaves main() in place of the original one and stop() is never reached
NotifyFailure_MailErrorEscapes ==
    /\ pc = "except"
    /\ mailLog' = IF args.email
                  THEN Append(mailLog, Mail("died", iter))
                  ELSE mailLog
    /\ IF args.email /\ mail_delivery = "fails"
       THEN pc' = "exit" /\ status' = "send_mail"
       ELSE pc' = "stop" /\ status' = status
    /\ UNCHANGED <<config, loopvars, files, handler, err, progress,
                   trainLog, shrinkLog, retireLog, retireDeleted,
                   cleanDeleted, phaseLog, accuracy_report>>

NotifyFailure ==
    /\ pc = "except"
    /\ mailLog' = IF args.email
                  THEN Append(mailLog, Mail("died", iter))
                  ELSE mailLog
    /\ pc' = "stop"
    /\ UNCHANGED <<config, loopvars, files, handler, err, status, progress,
                   trainLog, shrinkLog, retireLog, retireDeleted,
                   cleanDeleted, phaseLog, accuracy_report>>

\* line 516 with the handler bound: stop() drops the side-jobs; line 517
StopHandler ==
    /\ pc = "stop"
    /\ background_process_handler # "unbound"
    /\ background_process_handler' = "stopped"
    /\ aborted' = outstanding
    /\ outstanding' = 0
    /\ status' = err
    /\ pc' = "exit"
    /\ UNCHANGED <<config, logs, loopvars, files, err, progress>>

\* line 516 when the constructor of line 506 raised: the name is unbound
StopUnbound ==
    /\ pc = "stop"
    /\ background_process_handler = "unbound"
    /\ status' = "UnboundLocalError"
    /\ pc' = "exit"
    /\ UNCHANGED <<config, logs, loopvars, files, handler, err, progress>>

(***************************************************************************)
(* A side-job of the handler finishes on its own.                          *)
(***************************************************************************)
SideJobFinishes ==
    /\ background_process_handler = "active"
    /\ pc \notin {"exit", "except", "stop"}
    /\ outstanding > 0
    /\ outstanding' = outstanding - 1
    /\ UNCHANGED <<config, logs, loopvars, files, background_process_handler,
                   aborted, pc, err, status, progress>>

(***************************************************************************)
(* The operator runs the script again over the same directory, with        *)
(* --stage set to the first stage that is not complete.                    *)
(***************************************************************************)
Resume ==
    /\ pc = "exit"
    /\ run < MaxRuns
    /\ run' = run + 1
    /\ \E x \in ExitStageChoices :
          args' = [args EXCEPT !.stage = progress, !.exit_stage = x]
    /\ pc' = "main"
    /\ iter' = 0
    /\ num_archives_processed' = 0
    /\ background_process_handler' = "unbound"
    /\ outstanding' = 0
    /\ aborted' = 0
    /\ err' = "none"
    /\ status' = "running"
    /\ trainLog' = <<>>
    /\ shrinkLog' = <<>>
    /\ retireLog' = <<>>
    /\ retireDeleted' = {}
    /\ cleanDeleted' = {}
    /\ mailLog' = <<>>
    /\ phaseLog' = <<>>
    /\ accuracy_report' = FALSE
    /\ UNCHANGED <<variables, num_archives, egs, mail_delivery, files,
                   progress>>

Next ==
    \/ ConstructHandler
    \/ ConstructHandlerFails
    \/ PrepareTraining
    \/ ExitEarly
    \/ SkipIteration
    \/ RunIteration
    \/ TrainOneIterationFails
    \/ EndLoop
    \/ CombineModels
    \/ CombineModelsFails
    \/ SkipCombine
    \/ ComputeAveragePosterior
    \/ ComputeAveragePosteriorFails
    \/ SkipPrior
    \/ CleanDir
    \/ CleanDirFails
    \/ SkipClean
    \/ FinalReport
    \/ DirInfoFails
    \/ EnsureProcessesAreDone
    \/ NotifyFailure
    \/ StopHandler
    \/ StopUnbound
    \/ SideJobFinishes
    \/ Resume

Spec == Init /\ [][Next]_vars

(***************************************************************************)
(* The state of a process that has just started: nothing dispatched yet.   *)
(***************************************************************************)
FreshRun ==
    /\ iter = 0
    /\ num_archives_processed = 0
    /\ background_process_handler = "unbound"
    /\ outstanding = 0
    /\ aborted = 0
    /\ final_raw = Absent
    /\ err = "none"
    /\ status = "running"
    /\ run = 1
    /\ trainLog = <<>>
    /\ shrinkLog = <<>>
    /\ retireLog = <<>>
    /\ retireDeleted = {}
    /\ cleanDeleted = {}
    /\ mailLog = <<>>
    /\ phaseLog = <<>>
    /\ accuracy_report = FALSE

\* a run from the first stage with no exit stage, no cleanup and no mail
PlainArgs ==
    [stage |-> FirstStage,
     exit_stage |-> {},
     num_epochs |-> 2,
     num_jobs_initial |-> 1,
     num_jobs_final |-> 1,
     cleanup |-> FALSE,
     email |-> FALSE,
     preserve_model_interval |-> 0,
     max_models_combine |-> 4,
     shrink_value |-> NoShrink,
     reporting_interval |-> <<1, 2>>,
     chunk_width |-> DefaultChunkWidth,
     chunk_left_context |-> DefaultChunkLeftContext,
     chunk_right_context |-> 0,
     deriv_truncate_margin |-> {DefaultDerivTruncateMargin},
     num_bptt_steps |-> {},
     egs_dir |-> {},
     remove_egs |-> FALSE]

PlainVariables ==
    [model_left_context |-> 10,
     model_right_context |-> 10,
     include_log_softmax |-> TRUE,
     missing |-> {}]

(***************************************************************************)
(* The schedule of a run (lines 354-357, 383-391, 453) over a wide range   *)
(* of epochs, archives and job counts: the loop runs every iteration, no   *)
(* external call fails.                                                    *)
(***************************************************************************)
MaxPlanIters == MaxPlanEpochs * MaxPlanArchives

\* reporting intervals in (0, 1] that a binary float holds exactly, so that
\* num_iters * reporting_interval and the float modulo of line 444 are exact
PlanIntervalChoices == {<<1, 8>>, <<1, 4>>, <<1, 2>>, <<1, 1>>}

PlanArgsChoices ==
    {[PlainArgs EXCEPT !.num_epochs = e,
                       !.num_jobs_initial = ji,
                       !.num_jobs_final = jf,
                       !.email = m,
                       !.reporting_interval = r] :
        e \in 1..MaxPlanEpochs, ji \in 1..MaxPlanJobs, jf \in 1..MaxPlanJobs,
        m \in BOOLEAN, r \in PlanIntervalChoices}

InitPlan ==
    /\ args \in PlanArgsChoices
    /\ variables = PlainVariables
    /\ num_archives \in 1..MaxPlanArchives
    /\ args.num_jobs_final <= num_archives
    /\ egs = GeneratedEgs
    /\ mail_delivery = "ok"
    /\ disk = [i \in 0..MaxPlanIters |-> Absent]
    /\ progress = FirstStage
    /\ pc = "main"
    /\ FreshRun

NextPlan ==
    \/ ConstructHandler
    \/ PrepareTraining
    \/ RunIteration
    \/ EndLoop

SpecPlan == InitPlan /\ [][NextPlan]_vars

(***************************************************************************)
(* One run from the beginning over the options that do not change the      *)
(* schedule: mail, cleanup, the examples directory, shrinkage, the         *)
(* derivative-time margin; every external call may fail, and the mail      *)
(* command may stop or start delivering at any time.                       *)
(***************************************************************************)
FirstStageChoices == {0 - 4, FirstStage}
MarginChoices == {{}, {0}, {DefaultDerivTruncateMargin}}
ChunkWidthChoices == {8, DefaultChunkWidth}
EgsDirChoices == {{}, {"supplied"}}

OptionsArgsChoices ==
    {[PlainArgs EXCEPT !.stage = s,
                       !.num_jobs_final = 2,
                       !.cleanup = c,
                       !.email = m,
                       !.shrink_value = v,
                       !.deriv_truncate_margin = d,
                       !.chunk_width = w,
                       !.egs_dir = e,
                       !.remove_egs = r] :
        s \in FirstStageChoices, c \in BOOLEAN, m \in BOOLEAN,
        v \in {DefaultShrinkValue, NoShrink}, d \in MarginChoices,
        w \in ChunkWidthChoices, e \in EgsDirChoices, r \in BOOLEAN}

InitOptions ==
    /\ args \in OptionsArgsChoices
    /\ variables = PlainVariables
    /\ num_archives = MaxArchives
    /\ egs = IF GeneratesEgs THEN NoEgs ELSE GeneratedEgs
    /\ mail_delivery \in {"ok", "fails"}
    /\ disk = EmptyDisk
    /\ progress = args.stage
    /\ pc = "main"
    /\ FreshRun

MailServiceChanges ==
    /\ pc # "exit"
    /\ mail_delivery' = IF mail_delivery = "ok" THEN "fails" ELSE "ok"
    /\ UNCHANGED <<args, variables, num_archives, run, egs, logs, loopvars,
                   files, handler, pc, err, status, progress>>

NextOptions ==
    \/ ConstructHandler
    \/ ConstructHandlerFails
    \/ PrepareTraining
    \/ RunIteration
    \/ TrainOneIterationFails
    \/ EndLoop
    \/ CombineModels
    \/ CombineModelsFails
    \/ ComputeAveragePosterior
    \/ ComputeAveragePosteriorFails
    \/ CleanDir
    \/ CleanDirFails
    \/ SkipClean
    \/ FinalReport
    \/ DirInfoFails
    \/ EnsureProcessesAreDone
    \/ NotifyFailure
    \/ StopHandler
    \/ StopUnbound
    \/ MailServiceChanges

SpecOptions == InitOptions /\ [][NextOptions]_vars



(***************************************************************************)
(* What a run has done, read off its logs.                                 *)
(***************************************************************************)
DispatchedIters == {trainLog[k].params.iter : k \in 1..Len(trainLog)}
MeasuredIters == {shrinkLog[k] : k \in 1..Len(shrinkLog)}
RetireIndices == {retireLog[k] : k \in 1..Len(retireLog)}
UpdateMailIters ==
    {mailLog[k].iter : k \in {j \in 1..Len(mailLog) : mailLog[j].kind = "update"}}
Phases == {phaseLog[k].phase : k \in 1..Len(phaseLog)}
DiedMails == Cardinality({k \in 1..Len(mailLog) : mailLog[k].kind = "died"})
LoopLeftCleanly == err = "none" /\ pc \notin {"main", "train", "loop"}
ExitInLoop == {e \in args.exit_stage : e < num_iters}

(***************************************************************************)
(* C1. Resumption skips iterations: no train_one_iteration call, no        *)
(* saturation measurement, no retire request and no progress mail belongs  *)
(* to an iteration below --stage; the loop never passes an index at or     *)
(* above --stage without dispatching it, and a run that leaves the loop    *)
(* without a failure has dispatched exactly the iterations from --stage up *)
(* to num_iters (or up to --exit-stage).                                   *)
(***************************************************************************)
C1_ResumptionSkipsIterations ==
    /\ \A i \in DispatchedIters \cup MeasuredIters \cup UpdateMailIters :
          i >= args.stage
    /\ \A r \in RetireIndices : r + 2 >= args.stage
    /\ {i \in 0..(iter - 1) : i >= args.stage} \subseteq DispatchedIters
    /\ LoopLeftCleanly =>
          DispatchedIters =
             {i \in 0..(num_iters - 1) :
                 i >= args.stage /\ \A e \in ExitInLoop : i < e}

C1_Witness ==
    /\ run = 2
    /\ args.stage >= 2
    /\ args.stage < num_iters - 1
    /\ args.cleanup /\ args.email /\ args.shrink_value # NoShrink
    /\ pc = "exit" /\ status = "success"
    /\ Len(trainLog) >= 2
    /\ Len(shrinkLog) >= 2
    /\ Len(retireLog) >= 2
    /\ UpdateMailIters # {}


(***************************************************************************)
(* C2 as stated. Each post-loop phase is skipped by --stage: no            *)
(* combine_models when stage > num_iters, no compute_average_posterior     *)
(* when stage > num_iters + 1, no clean_nnet_dir (and nothing deleted by   *)
(* it) when stage > num_iters + 2.                                         *)
(***************************************************************************)
C2_EveryPhaseSkippable ==
    /\ args.stage > num_iters => "combine_models" \notin Phases
    /\ args.stage > num_iters + 1 => "compute_average_posterior" \notin Phases
    /\ args.stage > num_iters + 2 =>
          "clean_nnet_dir" \notin Phases /\ cleanDeleted = {}

(***************************************************************************)
(* C2 amended. combine_models is not invoked when stage > num_iters and    *)
(* then final.raw is left as the earlier run wrote it;                     *)
(* compute_average_posterior is not invoked when stage > num_iters + 1;    *)
(* clean_nnet_dir has no stage test: a run that passes line 475 without an *)
(* exception has invoked it exactly when cleanup is enabled, whatever      *)
(* --stage is, and has deleted nothing there when cleanup is disabled.     *)
(***************************************************************************)
C2_PhasesSkippableButCleanup ==
    /\ args.stage > num_iters => "combine_models" \notin Phases
    /\ args.stage > num_iters + 1 => "compute_average_posterior" \notin Phases
    /\ "combine_models" \notin Phases /\ run = 1 => final_raw = Absent
    /\ (err = "none" /\ pc \in {"report", "ensure", "exit"}
          /\ ExitInLoop = {}) =>
          ("clean_nnet_dir" \in Phases <=> args.cleanup)
    /\ "clean_nnet_dir" \notin Phases => cleanDeleted = {}

C2_Witness ==
    /\ run = 2
    /\ args.stage > num_iters + 2
    /\ args.cleanup
    /\ variables.include_log_softmax
    /\ pc = "exit" /\ status = "success"
    /\ Phases = {"clean_nnet_dir", "generate_accuracy_report"}
    /\ trainLog = <<>>

(***************************************************************************)
(* C3. Early termination: with --exit-stage e inside the loop range no     *)
(* train_one_iteration call is made for an index >= e and none of          *)
(* combine_models, compute_average_posterior, clean_nnet_dir is invoked;   *)
(* once the loop has reached index e the run ends with a successful status *)
(* and the side-jobs waited for, none aborted.                             *)
(***************************************************************************)
C3_EarlyTermination ==
    \A e \in ExitInLoop :
       /\ \A i \in DispatchedIters : i < e
       /\ Phases = {}
       /\ pc \notin {"combine", "prior", "clean", "report"}
       /\ iter <= e
       /\ (iter = e /\ err = "none" /\ pc \in {"ensure", "exit"}) =>
             /\ aborted = 0
             /\ background_process_handler \in {"active", "done"}
             /\ pc = "exit" =>
                   /\ status = "success"
                   /\ background_process_handler = "done"
                   /\ outstanding = 0

C3_Witness ==
    /\ args.exit_stage = {3}
    /\ num_iters > 3
    /\ iter = 3
    /\ Len(trainLog) = 3
    /\ pc = "exit" /\ status = "success"
    /\ background_process_handler = "done"

(***************************************************************************)
(* C4. One call per iteration, in order, no retry: the calls of a run are  *)
(* for consecutive increasing indices, each made only after the one before *)
(* it returned successfully; once any external call has failed no further  *)
(* train_one_iteration or post-loop call is made in that run, and the run  *)
(* ends with a failure status.                                             *)
(***************************************************************************)
C4_CallsInOrder ==
    /\ \A k \in 1..(Len(trainLog) - 1) :
          /\ trainLog[k + 1].params.iter = trainLog[k].params.iter + 1
          /\ trainLog[k].ok
    /\ err # "none" =>
          /\ pc \in {"except", "stop", "exit"}
          /\ pc = "exit" => status \notin {"success", "running"}
    /\ err = "train_one_iteration" =>
          /\ trainLog # <<>>
          /\ ~trainLog[Len(trainLog)].ok
          /\ trainLog[Len(trainLog)].params.iter = iter
          /\ Phases = {}
    /\ err \in {"combine_models", "compute_average_posterior",
                "clean_nnet_dir"} =>
          /\ phaseLog # <<>>
          /\ phaseLog[Len(phaseLog)].phase = err
          /\ \A k \in 1..Len(trainLog) : trainLog[k].ok

\* C4: the calls of a run are in order, each after the success of the one
\* before, and no call follows a failure within the run
C4_NoCallAfterFailure ==
    []C4_CallsInOrder
    /\ [][(err # "none" /\ run' = run) =>
             (trainLog' = trainLog /\ phaseLog' = phaseLog)]_vars

C4_Witness ==
    /\ pc = "exit"
    /\ err = "train_one_iteration"
    /\ status = "train_one_iteration"
    /\ Len(trainLog) >= 4


(***************************************************************************)
(* C5. Failure path: whenever a run ends after an exception inside the try *)
(* block (the construction of the handler included), a failure mail was    *)
(* sent if an address is configured, the handler was told to stop, and the *)
(* exception that reaches the caller is the original one; such a run never *)
(* ends with a successful status.                                          *)
(***************************************************************************)
C5_FailurePath ==
    (pc = "exit" /\ err # "none") =>
       /\ args.email => DiedMails = 1
       /\ background_process_handler = "stopped"
       /\ status = err
       /\ status # "success"

(***************************************************************************)
(* C6. Drain or abort: a run that ends normally has waited for every       *)
(* side-job (none outstanding, none aborted, stop never called); a run     *)
(* that ends abnormally has called stop on the handler and has not waited. *)
(***************************************************************************)
C6_DrainOrAbort ==
    pc = "exit" =>
       /\ status = "success" =>
             /\ background_process_handler = "done"
             /\ outstanding = 0
             /\ aborted = 0
       /\ status # "success" =>
             /\ background_process_handler = "stopped"
             /\ outstanding = 0

\* a first run (from the first stage) ended by a failing train_one_iteration
AbortedInIteration ==
    run = 1 /\ pc = "exit" /\ err = "train_one_iteration"

(***************************************************************************)
(* C7 as stated. A first run whose train_one_iteration fails in iteration  *)
(* k ends with checkpoints 0..k all on disk, no checkpoint k+1, exactly    *)
(* one failure mail (an address being configured) and a failure status,    *)
(* whatever the cleanup options are.                                       *)
(***************************************************************************)
C7_AbortKeepsAllCheckpoints ==
    (AbortedInIteration /\ args.email) =>
       /\ \A i \in 0..iter : disk[i] # Absent
       /\ disk[iter + 1] = Absent
       /\ DiedMails = 1
       /\ status = "train_one_iteration"

(***************************************************************************)
(* C7 amended. Such a run ends with checkpoints k-2..k on disk, with       *)
(* checkpoint i <= k-3 on disk exactly if cleanup is disabled or i is in   *)
(* the models to combine or a multiple of a positive preservation          *)
(* interval, with no checkpoint k+1, with exactly one failure mail if an   *)
(* address is configured and none otherwise, and with a failure status.    *)
(***************************************************************************)
C7_AbortKeepsUnretiredCheckpoints ==
    AbortedInIteration =>
       /\ \A i \in 0..iter :
             disk[i] # Absent <=>
                \/ ~args.cleanup
                \/ i > iter - 3
                \/ Retained(i, models_to_combine, args.preserve_model_interval)
       /\ disk[iter + 1] = Absent
       /\ DiedMails = (IF args.email THEN 1 ELSE 0)
       /\ status = "train_one_iteration"

C7_Witness ==
    /\ AbortedInIteration
    /\ iter = 5
    /\ args.cleanup /\ args.email
    /\ args.preserve_model_interval = 2
    /\ disk[0] # Absent /\ disk[1] = Absent /\ disk[2] # Absent
    /\ disk[3] # Absent /\ disk[5] # Absent
    /\ DiedMails = 1

(***************************************************************************)
(* C8 as stated. Neither the retire request after an iteration nor the     *)
(* final clean_nnet_dir deletes a checkpoint that is in the models to      *)
(* combine or a multiple of a positive preservation interval.              *)
(***************************************************************************)
C8_CleanupRetainsCombinationSet ==
    \A i \in retireDeleted \cup cleanDeleted :
       ~Retained(i, models_to_combine, args.preserve_model_interval)

(***************************************************************************)
(* C8 amended. The retire request after iteration iter is made only when   *)
(* cleanup is enabled, for index iter-2, does nothing for a negative index *)
(* and never deletes a checkpoint in the models to combine or at a         *)
(* multiple of a positive preservation interval; clean_nnet_dir is given   *)
(* num_iters and the preservation interval but not the models to combine:  *)
(* it never deletes a multiple of a positive preservation interval nor     *)
(* checkpoint num_iters, and it does delete the other checkpoints below    *)
(* num_iters, those in the models to combine included.                     *)
(***************************************************************************)
C8_CleanupRetention ==
    /\ \A i \in retireDeleted :
          /\ i >= 0
          /\ i + 2 \in DispatchedIters
          /\ ~Retained(i, models_to_combine, args.preserve_model_interval)
    /\ \A k \in 1..Len(retireLog) :
          /\ k <= Len(trainLog)
          /\ retireLog[k] = trainLog[k].params.iter - 2
          /\ trainLog[k].ok
    /\ ~args.cleanup =>
          retireLog = <<>> /\ retireDeleted = {} /\ cleanDeleted = {}
    /\ \A i \in cleanDeleted :
          /\ i < num_iters
          /\ ~Retained(i, {}, args.preserve_model_interval)
    /\ "clean_nnet_dir" \in Phases /\ err # "clean_nnet_dir" =>
          \A i \in 0..(num_iters - 1) :
             ~Retained(i, {}, args.preserve_model_interval) =>
                disk[i] = Absent

C8_Witness ==
    /\ args.cleanup
    /\ args.preserve_model_interval = 2
    /\ num_iters = 6
    /\ retireDeleted = {1}
    /\ cleanDeleted = {3, 5}
    /\ 3 \in models_to_combine
    /\ 3 \in RetireIndices
    /\ (0 - 2) \in RetireIndices
    /\ disk[0] # Absent /\ disk[2] # Absent /\ disk[4] # Absent
    /\ pc = "exit" /\ status = "success"


(***************************************************************************)
(* C9. Checkpoint dependency: every train_one_iteration call of a run,     *)
(* fresh or resumed, finds checkpoint iter on disk (no retire request of   *)
(* the run has deleted it), and every combine_models call finds all the    *)
(* models to combine on disk.                                              *)
(***************************************************************************)
C9_CheckpointDependency ==
    /\ \A k \in 1..Len(trainLog) : trainLog[k].input # Absent
    /\ \A k \in 1..Len(phaseLog) : phaseLog[k].missing = {}
    /\ (pc = "loop" /\ iter < num_iters /\ StageRuns(iter)) =>
          disk[iter] # Absent /\ iter \notin retireDeleted
    /\ (pc = "combine" /\ StageRuns(num_iters)) => MissingModels = {}

C9_Witness ==
    /\ run = 2
    /\ args.stage >= 3
    /\ args.cleanup
    /\ args.preserve_model_interval = 0
    /\ Len(trainLog) >= 3
    /\ Cardinality(retireDeleted) >= 2
    /\ "combine_models" \in Phases
    /\ Cardinality(models_to_combine) = 4
    /\ pc = "prior"

(***************************************************************************)
(* C10. Resumption idempotence.  The uninterrupted run from stage 0 is     *)
(* folded from checkpoint 0: UninterruptedRun(n)[i + 1] holds the       *)
(* counter and the checkpoint it has at iteration i.  Every                *)
(* train_one_iteration call of any run, resumed runs included, has exactly *)
(* the parameters of the uninterrupted run, and the combination a run      *)
(* produces is the final checkpoint of the uninterrupted run.              *)
(***************************************************************************)
RECURSIVE UninterruptedRun(_)
UninterruptedRun(n) ==
    IF n = 0 THEN <<[processed |-> 0, checkpoint |-> InitialContent]>>
    ELSE LET before == UninterruptedRun(n - 1)
             last == before[n]
         IN  Append(before,
                [processed |-> Advance(last.processed, n - 1),
                 checkpoint |->
                    TrainOneIterationResult(
                       last.checkpoint,
                       TrainParams(n - 1, last.processed, last.checkpoint))])

UninterruptedParams(u, i) ==
    TrainParams(i, u[i + 1].processed, u[i + 1].checkpoint)

UninterruptedFinal(u) ==
    CombineModelsResult([i \in 0..num_iters |-> u[i + 1].checkpoint],
                        models_to_combine)

\* C10: every call of a run has the parameters of the uninterrupted run, and
\* the combined model is the uninterrupted run's
C10_ResumptionIdempotence ==
    LET u == UninterruptedRun(num_iters)
    IN  /\ \A k \in 1..Len(trainLog) :
              trainLog[k].params = UninterruptedParams(u, trainLog[k].params.iter)
        /\ final_raw # Absent => final_raw = UninterruptedFinal(u)

C10_Witness ==
    /\ run = 2
    /\ args.stage >= 2
    /\ args.stage < num_iters
    /\ args.num_jobs_initial # args.num_jobs_final
    /\ args.shrink_value # NoShrink
    /\ Len(trainLog) >= 2
    /\ "combine_models" \in Phases
    /\ final_raw = UninterruptedFinal(UninterruptedRun(num_iters))
    /\ pc = "exit" /\ status = "success"

(***************************************************************************)
(* C11. Iteration count: num_iters is 2 * num_epochs * num_archives /      *)
(* (num_jobs_initial + num_jobs_final) rounded to the nearest integer, and *)
(* it is at least 1, for all positive inputs.                              *)
(***************************************************************************)
Nearest(n, d) == (2 * n + d) \div (2 * d)

C11_NumItersNearestAndPositive ==
    /\ num_iters = Nearest(2 * args.num_epochs * num_archives,
                           args.num_jobs_initial + args.num_jobs_final)
    /\ num_iters >= 1

(***************************************************************************)
(* C12. Ramp value: the job count of iteration iter is num_jobs_initial +  *)
(* (num_jobs_final - num_jobs_initial) * iter / num_iters rounded to the   *)
(* nearest integer, an exact half rounded up, whether the ramp rises or    *)
(* falls: j - 1/2 <= value < j + 1/2, compared after multiplying by        *)
(* 2 * num_iters.  With 2 epochs, 10 archives and 1 to 2 jobs there are 13 *)
(* iterations and iteration 6 uses 1 job.                                  *)
(***************************************************************************)
RampTimes2N(i) ==
    2 * num_iters * args.num_jobs_initial
       + 2 * (args.num_jobs_final - args.num_jobs_initial) * i

C12_RampValue ==
    /\ \A k \in 1..Len(trainLog) :
          LET p == trainLog[k].params
          IN  /\ (2 * p.num_jobs - 1) * num_iters <= RampTimes2N(p.iter)
              /\ RampTimes2N(p.iter) < (2 * p.num_jobs + 1) * num_iters
    /\ (/\ args.num_epochs = 2 /\ num_archives = 10
        /\ args.num_jobs_initial = 1 /\ args.num_jobs_final = 2)
       => /\ num_iters = 13
          /\ \A k \in 1..Len(trainLog) :
                trainLog[k].params.iter = 6 => trainLog[k].params.num_jobs = 1

\* an exact half is met and rounded up: 1 epoch, 3 archives, 1 to 2 jobs,
\* iteration 1 of 2 has the value 1.5 and runs 2 jobs
C12_Witness ==
    /\ args.num_epochs = 1 /\ num_archives = 3
    /\ args.num_jobs_initial = 1 /\ args.num_jobs_final = 2
    /\ num_iters = 2
    /\ Len(trainLog) = 2
    /\ trainLog[2].params.iter = 1
    /\ trainLog[2].params.num_jobs = 2

(***************************************************************************)
(* C13. Ramp shape: iteration 0 runs num_jobs_initial jobs, the ramp       *)
(* reaches num_jobs_final at num_iters, the job counts of successive       *)
(* iterations never move away from num_jobs_final, and every job count     *)
(* lies between the smaller and the larger of the two.                     *)
(***************************************************************************)
C13_RampShape ==
    LET ji == args.num_jobs_initial
        jf == args.num_jobs_final
        jobs(k) == trainLog[k].params.num_jobs
    IN  /\ \A k \in 1..Len(trainLog) :
              /\ trainLog[k].params.iter = 0 => jobs(k) = ji
              /\ Min(ji, jf) <= jobs(k) /\ jobs(k) <= Max(ji, jf)
        /\ \A k \in 1..(Len(trainLog) - 1) :
              /\ ji <= jf => jobs(k) <= jobs(k + 1)
              /\ ji >= jf => jobs(k) >= jobs(k + 1)
        /\ num_iters >= 1 =>
              /\ CurrentNumJobs(0) = ji
              /\ CurrentNumJobs(num_iters) = jf
              /\ \A i \in 0..(num_iters - 1) :
                    /\ ji <= jf => CurrentNumJobs(i) <= CurrentNumJobs(i + 1)
                    /\ ji >= jf => CurrentNumJobs(i) >= CurrentNumJobs(i + 1)

\* a falling ramp run to the end: 3 jobs at first, 1 job in the last iteration
C13_Witness ==
    /\ args.num_jobs_initial = 3 /\ args.num_jobs_final = 1
    /\ pc = "combine"
    /\ Len(trainLog) = num_iters
    /\ num_iters >= 4
    /\ trainLog[1].params.num_jobs = 3
    /\ trainLog[num_iters].params.num_jobs = 1
    /\ \E k \in 1..num_iters : trainLog[k].params.num_jobs = 2

(***************************************************************************)
(* C14. Final report: every run that ends successfully has generated the   *)
(* final accuracy report and written it to accuracy.report before          *)
(* returning, whatever --stage, --exit-stage, --cleanup and --email are.   *)
(***************************************************************************)
CompleteMails ==
    Cardinality({k \in 1..Len(mailLog) : mailLog[k].kind = "complete"})

C14_FinalReportAlways ==
    (pc = "exit" /\ status = "success") =>
        /\ accuracy_report
        /\ "generate_accuracy_report" \in Phases

(***************************************************************************)
(* C14, as the code has it: a run that ends successfully without being cut *)
(* short by --exit-stage has generated and written the final report (and   *)
(* mailed it exactly when --email is set) before train() returns, for      *)
(* every --stage and --cleanup; a run that returns at --exit-stage ends    *)
(* successfully without generating or writing any final report.            *)
(***************************************************************************)
C14_FinalReportUnlessExitStage ==
    /\ (pc \in {"ensure", "exit"} /\ err = "none") =>
          /\ accuracy_report <=> ExitInLoop = {}
          /\ accuracy_report <=> "generate_accuracy_report" \in Phases
          /\ CompleteMails = IF accuracy_report /\ args.email THEN 1 ELSE 0
    /\ (pc = "exit" /\ status = "success") => err = "none"

\* a resumed run with cleanup and mail that wrote the report
C14_Witness ==
    /\ run = 2
    /\ args.stage >= 2
    /\ args.exit_stage # {}
    /\ ExitInLoop = {}
    /\ args.cleanup /\ args.email
    /\ pc = "exit" /\ status = "success"
    /\ accuracy_report
    /\ CompleteMails = 1

(***************************************************************************)
(* C15. Notification failure isolation: a mail that is not delivered       *)
(* (progress mail in the loop, completion mail) aborts nothing: the run    *)
(* raises no error of its own, dispatches every later iteration and runs   *)
(* every later phase; an undelivered failure mail on the abort path leaves *)
(* the original exception the one that main() re-raises and does not keep  *)
(* stop() from being called on the handler.                                *)
(***************************************************************************)
Undelivered == {k \in 1..Len(mailLog) : ~mailLog[k].delivered}

ValidateStageChoices == {0 - 4, FirstStage, 0, 2}

\* --trainer.rnn.num-bptt-steps: not given, below and above the chunk width
BpttStepsChoices == {{}, {10}, {25}}

ValidateArgsChoices ==
    {[PlainArgs EXCEPT !.stage = s,
                       !.chunk_width = w,
                       !.chunk_left_context = l,
                       !.chunk_right_context = r,
                       !.num_jobs_final = jf,
                       !.egs_dir = e,
                       !.email = m,
                       !.num_bptt_steps = b,
                       !.deriv_truncate_margin = d] :
        s \in ValidateStageChoices, w \in {0, DefaultChunkWidth},
        l \in {0 - 1, DefaultChunkLeftContext}, r \in {0 - 1, 0},
        jf \in {1, MaxArchives + 1}, e \in EgsDirChoices, m \in BOOLEAN,
        b \in BpttStepsChoices, d \in MarginChoices}

ValidateVariablesChoices ==
    {[PlainVariables EXCEPT !.missing = x] : x \in {{}, {"add_lda"}}}

\* the examples found in the egs directory: as this run would generate
\* them, with another left context, with another chunk width
ValidateEgsChoices ==
    {GeneratedEgs,
     [GeneratedEgs EXCEPT !.left_context = @ + 1],
     [GeneratedEgs EXCEPT !.frames_per_eg = @ + 1]}

\* the checkpoints 0..stage that an earlier run without cleanup has left
PriorDisk ==
    IF args.stage < 0 THEN EmptyDisk
    ELSE LET u == UninterruptedRun(args.stage)
         IN  [i \in 0..MaxNumIters |->
                IF i <= args.stage THEN u[i + 1].checkpoint ELSE Absent]

InitValidate ==
    /\ args \in ValidateArgsChoices
    /\ variables \in ValidateVariablesChoices
    /\ num_archives = MaxArchives
    /\ egs \in ValidateEgsChoices
    /\ mail_delivery = "ok"
    /\ disk = PriorDisk
    /\ progress = args.stage
    /\ pc = "get_args"
    /\ FreshRun

NextValidate ==
    \/ ProcessArgs
    \/ ProcessArgsFails
    \/ ConstructHandler
    \/ PrepareTraining
    \/ PrepareTrainingFails
    \/ SkipIteration
    \/ RunIteration
    \/ TrainOneIterationFails
    \/ EndLoop
    \/ NotifyFailure
    \/ StopHandler

SpecValidate == InitValidate /\ [][NextValidate]_vars

(***************************************************************************)
(* C16. Eager validation: with a chunk width below 1, a negative chunk     *)
(* context, a missing configuration variable, examples whose contexts or   *)
(* frames per example disagree with the options, or more final jobs than   *)
(* archives, the run never calls train_one_iteration, never enters the     *)
(* loop and never ends successfully, whatever --stage is.                  *)
(***************************************************************************)
InvalidPlan ==
    \/ args.chunk_width < 1
    \/ args.chunk_left_context < 0
    \/ args.chunk_right_context < 0
    \/ variables.missing # {}
    \/ EgsVerified.left_context # left_context
    \/ EgsVerified.right_context # right_context
    \/ EgsVerified.frames_per_eg # args.chunk_width
    \/ args.num_jobs_final > num_archives

C16_EagerValidation ==
    InvalidPlan =>
        /\ trainLog = <<>>
        /\ pc \in {"get_args", "main", "train", "except", "stop", "exit"}
        /\ pc = "exit" => status \notin {"running", "success"}
        /\ pc \in {"except", "stop"} => err # "none"

\* a run resumed at iteration 2 over existing checkpoints, asked for more
\* final jobs than there are archives, has failed without training
C16_Witness ==
    /\ args.stage = 2
    /\ disk[2] # Absent
    /\ args.num_jobs_final > num_archives
    /\ ArgsError = "none"
    /\ variables.missing = {}
    /\ pc = "exit"
    /\ status = "num_jobs_final"
    /\ trainLog = <<>>

(***************************************************************************)
(* C17. Archive-pool protection: clean_nnet_dir is called only when        *)
(* --cleanup is set; it is asked to remove the examples exactly when       *)
(* --remove-egs is set and the examples are the experiment's own (no       *)
(* --egs-dir was given); examples supplied with --egs-dir are never asked  *)
(* to be removed and are still there whatever --remove-egs is.             *)
(***************************************************************************)
CleanCalls == {k \in 1..Len(phaseLog) : phaseLog[k].phase = "clean_nnet_dir"}

C17_ArchivePoolProtection ==
    /\ CleanCalls # {} => args.cleanup
    /\ \A k \in CleanCalls :
          /\ phaseLog[k].remove_egs <=> (args.remove_egs /\ args.egs_dir = {})
          /\ args.egs_dir # {} => ~phaseLog[k].remove_egs
    /\ args.egs_dir # {} => egs = GeneratedEgs
    /\ (egs = NoEgs /\ progress >= 0) =>
          /\ CleanCalls # {}
          /\ args.remove_egs /\ args.egs_dir = {}

\* --remove-egs with supplied examples: the directory is cleaned, the
\* examples are kept
C17_Witness ==
    /\ args.cleanup /\ args.remove_egs /\ args.egs_dir # {}
    /\ pc = "exit" /\ status = "success"
    /\ CleanCalls # {}
    /\ \A k \in CleanCalls : ~phaseLog[k].remove_egs
    /\ egs = GeneratedEgs
    /\ cleanDeleted # {}

(***************************************************************************)
(* C18. Periodic reporting gate: an executed iteration sends the progress  *)
(* mail exactly when --email is set and iter is a multiple of num_iters *  *)
(* reporting_interval rounded to an integer that is at least 1; the        *)
(* interval is never fractional; iteration 0 reports whenever --email is   *)
(* set.                                                                    *)
(***************************************************************************)
RoundedInterval ==
    Max(1, Nearest(num_iters * args.reporting_interval[1],
                   args.reporting_interval[2]))

C18_ReportingGateRounded ==
    /\ \A i \in DispatchedIters :
          i \in UpdateMailIters <=> (args.email /\ i % RoundedInterval = 0)
    /\ (num_iters * args.reporting_interval[1])
          % args.reporting_interval[2] = 0

(***************************************************************************)
(* C19. Shrinkage gating: with --shrink-value 1.0 every                    *)
(* train_one_iteration call gets the shrinkage value 1.0 and do_shrinkage  *)
(* is never called; otherwise do_shrinkage is called exactly once for each *)
(* executed iteration, on the model of that iteration, and the value       *)
(* passed is --shrink-value when it reports saturation and 1.0 when it     *)
(* does not, never anything else.                                          *)
(***************************************************************************)
C19_ShrinkageGating ==
    LET value(k) == trainLog[k].params.shrinkage_value
    IN  /\ args.shrink_value = NoShrink =>
              /\ shrinkLog = <<>>
              /\ \A k \in 1..Len(trainLog) : value(k) = NoShrink
        /\ args.shrink_value # NoShrink =>
              /\ Len(shrinkLog) = Len(trainLog)
              /\ \A k \in 1..Len(trainLog) :
                    /\ shrinkLog[k] = trainLog[k].params.iter
                    /\ trainLog[k].input = disk[shrinkLog[k]]
                          \/ disk[shrinkLog[k]] = Absent
                    /\ value(k) \in {args.shrink_value, NoShrink}
                    /\ value(k) = args.shrink_value
                          <=> DoShrinkage(trainLog[k].input)

\* a run with --shrink-value 0.99 in which some iterations were shrunk and
\* others were not
C19_Witness ==
    /\ args.shrink_value = DefaultShrinkValue
    /\ pc = "exit" /\ status = "success"
    /\ Len(trainLog) = num_iters
    /\ Len(shrinkLog) = num_iters
    /\ \E k \in 1..Len(trainLog) :
          trainLog[k].params.shrinkage_value = DefaultShrinkValue
    /\ \E k \in 1..Len(trainLog) :
          trainLog[k].params.shrinkage_value = NoShrink

(***************************************************************************)
(* C20. Truncation window: every train_one_iteration call gets             *)
(* min_deriv_time = -margin - model_left_context and max_deriv_time =      *)
(* chunk_width - 1 + margin + model_right_context (chunk width 20, margin  *)
(* 8, model contexts 10 and 10: -18 and 37); with no margin both are None; *)
(* the chunk contexts play no part; all calls of a run get the same        *)
(* window.                                                                 *)
(***************************************************************************)
C20_TruncationWindow ==
    /\ \A k \in 1..Len(trainLog) :
          LET p == trainLog[k].params
          IN  /\ args.deriv_truncate_margin = {} =>
                    p.min_deriv_time = {} /\ p.max_deriv_time = {}
              /\ \A m \in args.deriv_truncate_margin :
                    /\ p.min_deriv_time =
                          {0 - m - variables.model_left_context}
                    /\ p.max_deriv_time =
                          {args.chunk_width - 1 + m
                             + variables.model_right_context}
              /\ (/\ args.chunk_width = 20
                  /\ args.deriv_truncate_margin = {8}
                  /\ variables.model_left_context = 10
                  /\ variables.model_right_context = 10)
                 => p.min_deriv_time = {0 - 18} /\ p.max_deriv_time = {37}
    /\ \A j, k \in 1..Len(trainLog) :
          /\ trainLog[j].params.min_deriv_time
                = trainLog[k].params.min_deriv_time
          /\ trainLog[j].params.max_deriv_time
                = trainLog[k].params.max_deriv_time

\* chunk width 8 and margin 0 with chunk contexts 40 and 0: the window of
\* every call of a complete run is (-10, 17)
C20_Witness ==
    /\ args.chunk_width = 8
    /\ args.deriv_truncate_margin = {0}
    /\ args.chunk_left_context = 40 /\ args.chunk_right_context = 0
    /\ pc = "exit" /\ status = "success"
    /\ Len(trainLog) = num_iters
    /\ num_iters >= 3
    /\ \A k \in 1..Len(trainLog) :
          /\ trainLog[k].params.min_deriv_time = {0 - 10}
          /\ trainLog[k].params.max_deriv_time = {17}

(***************************************************************************)
(* C21. Archives-processed counter: num_archives_processed is 0 before the *)
(* loop and, at loop index i, the sum of the job counts of all indices     *)
(* below i, whether those iterations were executed or skipped by --stage;  *)
(* that sum is what every train_one_iteration call is given, and it never  *)
(* decreases from one call of a run to the next.                           *)
(***************************************************************************)
RECURSIVE JobsBelow(_)
JobsBelow(i) == IF i <= 0 THEN 0 ELSE JobsBelow(i - 1) + CurrentNumJobs(i - 1)

C21_ArchivesProcessedCounter ==
    /\ num_archives_processed = JobsBelow(iter)
    /\ num_archives_processed >= 0
    /\ \A k \in 1..Len(trainLog) :
          trainLog[k].params.num_archives_processed
             = JobsBelow(trainLog[k].params.iter)
    /\ \A k \in 1..(Len(trainLog) - 1) :
          trainLog[k].params.num_archives_processed
             < trainLog[k + 1].params.num_archives_processed

\* a resumed run that skipped iterations 0..2 of a rising ramp and then
\* trained with the counter those iterations would have left
C21_Witness ==
    /\ run = 2
    /\ args.stage >= 3
    /\ args.num_jobs_initial < args.num_jobs_final
    /\ Len(trainLog) >= 1
    /\ trainLog[1].params.iter = args.stage
    /\ trainLog[1].params.num_archives_processed = JobsBelow(args.stage)
    /\ trainLog[1].params.num_archives_processed > args.stage
    /\ num_archives_processed = JobsBelow(iter)
    /\ iter > args.stage

(***************************************************************************)
(* C22. Deprecated BPTT translation: when --trainer.rnn.num-bptt-steps is  *)
(* given, process_args sets deriv_truncate_margin to num_bptt_steps -      *)
(* chunk_width - 2 in place of whatever margin was given, before main()    *)
(* starts any stage; when it is not given the margin is left as it was;    *)
(* no later step changes the margin, and the window of every               *)
(* train_one_iteration call is computed from it.                           *)
(***************************************************************************)
TranslatedMargin ==
    {b - args.chunk_width - 2 : b \in args.num_bptt_steps}

C22_MarginAfterProcessArgs ==
    /\ (args.num_bptt_steps # {} /\ pc # "get_args" /\ ArgsError = "none") =>
          args.deriv_truncate_margin = TranslatedMargin
    /\ pc = "get_args" => trainLog = <<>> /\ progress = args.stage
    /\ \A k \in 1..Len(trainLog) :
          /\ trainLog[k].params.min_deriv_time =
                {0 - m - variables.model_left_context :
                    m \in args.deriv_truncate_margin}
          /\ trainLog[k].params.max_deriv_time =
                {args.chunk_width - 1 + m + variables.model_right_context :
                    m \in args.deriv_truncate_margin}

C22_MarginStep ==
    /\ (pc = "get_args" /\ pc' = "main") =>
          args'.deriv_truncate_margin =
             IF args.num_bptt_steps = {} THEN args.deriv_truncate_margin
             ELSE TranslatedMargin
    /\ ~(pc = "get_args" /\ pc' = "main") =>
          args'.deriv_truncate_margin = args.deriv_truncate_margin
    /\ args'.num_bptt_steps = args.num_bptt_steps
    /\ args'.chunk_width = args.chunk_width

C22_BpttTranslation ==
    [](C22_MarginAfterProcessArgs) /\ [][C22_MarginStep]_vars

\* 25 BPTT steps with chunk width 20: the margin is 3 and the calls of the
\* run got the window (-13, 32)
C22_Witness ==
    /\ args.num_bptt_steps = {25}
    /\ args.chunk_width = 20
    /\ args.deriv_truncate_margin = {3}
    /\ Len(trainLog) >= 2
    /\ \A k \in 1..Len(trainLog) :
          /\ trainLog[k].params.min_deriv_time = {0 - 13}
          /\ trainLog[k].params.max_deriv_time = {32}

(***************************************************************************)
(* Runs with --exit-stage below, inside and beyond the loop range, from    *)
(* the beginning and resumed over the checkpoints of an earlier run.       *)
(***************************************************************************)
ExitStageRangeChoices == {{}, {0 - 2}, {0}, {1}, {3}, {MaxNumIters}}
ExitRunStageChoices == {FirstStage, 0, 2}

ExitArgsChoices ==
    {[PlainArgs EXCEPT !.stage = s,
                       !.exit_stage = x,
                       !.num_jobs_final = jf,
                       !.cleanup = c] :
        s \in ExitRunStageChoices, x \in ExitStageRangeChoices,
        jf \in NumJobsChoices, c \in BOOLEAN}

InitExit ==
    /\ args \in ExitArgsChoices
    /\ variables = PlainVariables
    /\ num_archives = MaxArchives
    /\ egs = GeneratedEgs
    /\ mail_delivery = "ok"
    /\ disk = PriorDisk
    /\ progress = args.stage
    /\ pc = "main"
    /\ FreshRun

NextExit ==
    \/ ConstructHandler
    \/ PrepareTraining
    \/ ExitEarly
    \/ SkipIteration
    \/ RunIteration
    \/ TrainOneIterationFails
    \/ EndLoop
    \/ CombineModels
    \/ ComputeAveragePosterior
    \/ CleanDir
    \/ SkipClean
    \/ FinalReport
    \/ EnsureProcessesAreDone
    \/ NotifyFailure
    \/ StopHandler

SpecExit == InitExit /\ [][NextExit]_vars

(***************************************************************************)
(* C23. Exit stage precedence: with 0 <= exit_stage < num_iters the loop   *)
(* never passes index exit_stage and the run returns there successfully,   *)
(* also when exit_stage is below --stage: then nothing is trained; in      *)
(* either case no combination, prior estimation, cleanup or final report   *)
(* takes place.  With exit_stage negative or at least num_iters the run    *)
(* is the run without --exit-stage: every iteration from --stage on, the   *)
(* combination, the prior estimation, the cleanup if enabled and the final *)
(* report.                                                                 *)
(***************************************************************************)
ExitInRange == {e \in args.exit_stage : 0 <= e /\ e < num_iters}

C23_ExitStagePrecedence ==
    /\ \A e \in ExitInRange :
          /\ iter <= e
          /\ DispatchedIters \subseteq {i \in 0..(e - 1) : i >= args.stage}
          /\ e <= args.stage => trainLog = <<>>
          /\ Phases = {} /\ cleanDeleted = {} /\ ~accuracy_report
          /\ final_raw = Absent
          /\ pc \notin {"combine", "prior", "clean", "report"}
          /\ (pc \in {"ensure", "exit"} /\ err = "none") =>
                /\ iter = e
                /\ DispatchedIters = {i \in 0..(e - 1) : i >= args.stage}
          /\ (pc = "exit" /\ err = "none") => status = "success"
    /\ (ExitInRange = {} /\ pc = "exit" /\ err = "none") =>
          /\ status = "success"
          /\ DispatchedIters = {i \in 0..(num_iters - 1) : i >= args.stage}
          /\ {"combine_models", "compute_average_posterior",
              "generate_accuracy_report"} \subseteq Phases
          /\ "clean_nnet_dir" \in Phases <=> args.cleanup
          /\ final_raw # Absent
          /\ accuracy_report

\* a run resumed at iteration 2 with --exit-stage 1 has ended successfully
\* at loop index 1 with nothing trained and no phase run
C23_Witness ==
    /\ args.stage = 2
    /\ args.exit_stage = {1}
    /\ args.cleanup
    /\ pc = "exit" /\ status = "success"
    /\ iter = 1
    /\ trainLog = <<>>
    /\ Phases = {}
    /\ disk[2] # Absent

====
